---- MODULE Spec2Model ----
(***************************************************************************)
(* use-resource: the resource store (resource-store.ts), the staleness     *)
(* predicate (resource-state.ts) and the fetch coordinator                 *)
(* (fetch-resource.ts), as a state machine.                                *)
(*                                                                         *)
(* JavaScript runs the store and the coordinator on one thread: a call of  *)
(* fetchResource or mutate, and each promise callback (.then, .catch,      *)
(* .finally), runs to completion, so each is one action.  Calls, clock     *)
(* ticks and promise settlements interleave freely.                        *)
(***************************************************************************)
EXTENDS Integers, Sequences, FiniteSets, TLC

(* ------------------------------ bounds --------------------------------- *)
\* producer invocations that return a promise, over a run of Spec; a run of
\* SpecRace has room for one more
MaxInv == 1
\* largest $version from which a settling operation is still started
MaxVersion == 1
\* number of instants the clock takes (see Instants)
MaxInstants == 2

Keys == {"k1", "k2"}
Values == {"v1", "v2"}
Listeners == {"l1", "l2"}
\* the key and the listener the single-key specification Spec works on
CoreKeys == {"k1"}
CoreListeners == {"l1"}

(* --------------------------- JavaScript values ------------------------- *)
\* A value is [t: type tag, v: payload text, h: promise identity].
Undefined == [t |-> "undefined", v |-> "", h |-> 0]
Null == [t |-> "null", v |-> "", h |-> 0]
Str(s) == [t |-> "string", v |-> s, h |-> 0]
Num(d) == [t |-> "number", v |-> d, h |-> 0]
Bool(b) == [t |-> "boolean", v |-> IF b THEN "true" ELSE "false", h |-> 0]
Err(m) == [t |-> "Error", v |-> m, h |-> 0]
TypeErr == [t |-> "TypeError", v |-> "Cannot convert undefined or null to object", h |-> 0]
PromiseVal(i) == [t |-> "Promise", v |-> "", h |-> i]

\* e instanceof Error
InstanceOfError(e) == e.t \in {"Error", "TypeError"}

\* String(e)
String(e) ==
  CASE e.t = "string" -> e.v
    [] e.t = "number" -> e.v
    [] e.t = "boolean" -> e.v
    [] e.t = "null" -> "null"
    [] e.t = "undefined" -> "undefined"
    [] e.t = "Promise" -> "[object Promise]"
    [] OTHER -> e.t \o ": " \o e.v

\* e instanceof Error ? e : new Error(String(e))
NormalizeError(e) == IF InstanceOfError(e) THEN e ELSE Err(String(e))

\* Object.getPrototypeOf(null | undefined) throws a TypeError
isPromiseThrows(x) == x.t \in {"null", "undefined"}
isPromise(x) == x.t = "Promise"

(* ------------------------------ resources ------------------------------ *)
\* A field a JavaScript object does not have reads as undefined; timestamp
\* and $version are absent (-1) exactly in an entry written without them.
NoTime == -1
NoVersion == -1
NoEntry ==
  [status |-> "absent", result |-> Undefined, error |-> Undefined,
   suspender |-> 0, timestamp |-> NoTime, version |-> NoVersion]

\* ttl?: number default
DefaultTTL == 60
\* the ttl option: unset (-1) or a number of seconds
TTLOptions == {-1, 0}
SuspenseOptions == {"unset", "false"}
ForceOptions == {"unset", "true"}
Options == [ttl : TTLOptions, suspense : SuspenseOptions, force : ForceOptions]

\* the ttl with 0 as the default
ttlOfZero(o) == IF o.ttl = -1 THEN 0 ELSE o.ttl
ttlOf(o) == IF o.ttl = -1 THEN DefaultTTL ELSE o.ttl
suspenseOf(o) == IF o.suspense = "unset" THEN TRUE ELSE o.suspense = "true"
forceOf(o) == o.force = "true"

\* utils/time seconds(): seconds to milliseconds
seconds(s) == s * 1000

\* the instants Date.now() takes in the model: 0, then one default ttl
\* later, then one second apart
Instants == {0} \cup {seconds(DefaultTTL) + (i - 2) * 1000 : i \in 2..MaxInstants}

\* isStale with the boundary instant counted as expired
isStaleLoose(ttl, resource, t) ==
  resource.status = "fulfilled" /\ resource.timestamp + seconds(ttl) <= t
\* isStale that counts a revalidating entry as it does a fulfilled one
isStaleInFlight(ttl, resource, t) ==
  /\ resource.status \in {"fulfilled", "revalidating"}
  /\ resource.timestamp + seconds(ttl) < t
\* isStale with the ttl ignored
isStaleAlways(ttl, resource, t) == resource.status = "fulfilled"
\* isStale(ttl, resource), read at Date.now() = t
isStale(ttl, resource, t) ==
  resource.status = "fulfilled" /\ resource.timestamp + seconds(ttl) < t

isSettled(resource) == resource.status # "absent" /\ resource.timestamp # NoTime

(* --------------------------- producer outcomes ------------------------- *)
\* What one call fn() does: return a plain value, throw, or return a promise.
SyncOutcomes ==
  {[how |-> "return", val |-> Str(v)] : v \in Values} \cup
  {[how |-> "return", val |-> Null], [how |-> "return", val |-> Undefined],
   [how |-> "throw", val |-> Err("boom")]}
AsyncOutcome == [how |-> "promise", val |-> Undefined]
FnOutcomes == SyncOutcomes \cup {AsyncOutcome}
\* what a producer's promise can reject with
Reasons == {Err("wtf"), Str("x")}
\* the same, with a number, null and undefined
AllReasons == Reasons \cup {Num("404"), Null, Undefined}

(* -------------------------------- state -------------------------------- *)
VARIABLES
  cache,        \* store.cache: key -> Resource (NoEntry when the key is absent)
  subscribers,  \* store.subscribers: key -> listeners in insertion order
  now,          \* Date.now()
  invs,         \* promise chains by identity: one per producer call that returned a promise
  closure,      \* the variables status/result/error of the fetchResource call that owns a chain
  nInv,         \* number of promise chains created
  settled,      \* history: per key, the $version written by each settlement, in order
  last          \* history: the operation that ran last and what it did

vars == <<cache, subscribers, now, invs, closure, nInv, settled, last>>

\* the producer's promise: its state and the value it settled with
Unsettled == [state |-> "pending", value |-> Undefined]
NoInv == [key |-> "", nextVersion |-> 0, closure |-> 0, stage |-> "unused",
          promise |-> Unsettled]
NoClosure == [status |-> "", result |-> Undefined, error |-> Undefined]

NoRet == [kind |-> "none", val |-> Undefined]
Returned(x) == [kind |-> "return", val |-> x]
Thrown(x) == [kind |-> "throw", val |-> x]
NoOptions == [ttl |-> -1, suspense |-> "unset", force |-> "unset"]
\* the defaults written out: { ttl: 60, suspense: true, force: false }
ExplicitDefaults == [ttl |-> 60, suspense |-> "true", force |-> "false"]

\* last keeps the status of the entry the operation found, and of the
\* options of a fetchResource call the effective force and suspense
Last(op, k, o, pre, ret, invoked, started, passes, called, writes, seen) ==
  [op |-> op, key |-> k, force |-> forceOf(o), suspense |-> suspenseOf(o),
   pre |-> pre.status, ret |-> ret, invoked |-> invoked, started |-> started,
   passes |-> passes, called |-> called, writes |-> writes, seen |-> seen]

\* the state after construction, with room for n promise chains
InitChains(n) ==
  /\ cache = [k \in Keys |-> NoEntry]
  /\ subscribers = [k \in Keys |-> <<>>]
  /\ now = 0
  /\ invs = [i \in 1..n |-> NoInv]
  /\ closure = [i \in 1..n |-> NoClosure]
  /\ nInv = 0
  /\ settled = [k \in Keys |-> <<>>]
  /\ last = Last("init", "", NoOptions, NoEntry, NoRet, 0, {}, <<>>, <<>>, <<>>, <<>>)

Init == InitChains(MaxInv)
InitRace == InitChains(MaxInv + 1)

\* Promise callbacks are microtasks: once a producer promise has settled and
\* its .then/.catch callback has run, the .finally callback of the chain runs
\* before the event loop starts another task, so until then only promise
\* callbacks run.
Draining == \E i \in DOMAIN invs : invs[i].stage = "reacted"

(* ------------------------------- the store ----------------------------- *)
\* A call in progress is a context c: the store's tables as the call has
\* changed them so far, the call's local variables, and what it did.
Context(k) ==
  [cache |-> cache, subs |-> subscribers, invs |-> invs, closure |-> closure,
   nInv |-> nInv, settled |-> settled,
   resource |-> cache[k], status |-> "", cid |-> 0,
   invoked |-> 0, started |-> {}, passes |-> <<>>, called |-> <<>>,
   writes |-> <<>>, seen |-> <<>>]

\* a pass that calls every listener twice
notifySubscribersTwice(c, k) ==
  [c EXCEPT !.passes = Append(@, k), !.called = @ \o c.subs[k] \o c.subs[k],
            !.seen = Append(@, c.cache[k])]
\* _subscribers.forEach(sub => sub()): the pass calls the key's listeners in
\* order, and what they find in the cache is the entry seen
notifySubscribers(c, k) ==
  [c EXCEPT !.passes = Append(@, k), !.called = @ \o c.subs[k],
            !.seen = Append(@, c.cache[k])]

\* cache.set(key, resource), and the call's own variable resource
cacheSet(c, k, r) ==
  [c EXCEPT !.cache[k] = r, !.resource = r, !.writes = Append(@, r)]


Fulfilled(v, t, ver) ==
  [status |-> "fulfilled", result |-> v, error |-> Undefined,
   suspender |-> 0, timestamp |-> t, version |-> ver]
Rejected(e, t, ver) ==
  [status |-> "rejected", result |-> Undefined, error |-> e,
   suspender |-> 0, timestamp |-> t, version |-> ver]

\* mutate's condition with a test that refuses a rejected entry too
mutateAcceptsFulfilled(resource) ==
  /\ resource # NoEntry
  /\ resource.status = "fulfilled"
\* mutate's condition without the test for 'revalidating'
mutateAcceptsRevalidating(resource) ==
  /\ resource # NoEntry
  /\ resource.status # "pending"
\* mutate(key, data)
mutateAccepts(resource) ==
  /\ resource # NoEntry
  /\ resource.status # "pending"
  /\ resource.status # "revalidating"

Mutate(k, v) ==
  LET resource == cache[k]
      written == cacheSet(Context(k), k,
                          Fulfilled(Str(v), now, resource.version + 1))
  IN IF mutateAccepts(resource)
       THEN /\ ~Draining
            /\ resource.version < MaxVersion
            /\ \E done \in {notifySubscribers(written, k)} :
                 /\ cache' = done.cache
                 /\ settled' = [settled EXCEPT ![k] =
                                  Append(@, resource.version + 1)]
                 /\ last' = Last("mutate", k, NoOptions, resource,
                                 Returned(Bool(TRUE)), 0, {},
                                 done.passes, done.called,
                                 done.writes, done.seen)
                 /\ UNCHANGED <<subscribers, now, invs, closure, nInv>>
       ELSE /\ ~Draining
            /\ last' = Last("mutate", k, NoOptions, resource, Returned(Bool(FALSE)),
                            0, {}, <<>>, <<>>, <<>>, <<>>)
            /\ UNCHANGED <<cache, subscribers, now, invs, closure, nInv, settled>>

(* ---------------------------- the coordinator -------------------------- *)
\* handleOperation(): one call of the producer, whose outcome is out
\* a next version that repeats the entry's
nextVersionSame(resource) == IF isSettled(resource) THEN resource.version ELSE 0
nextVersionOf(resource) == IF isSettled(resource) THEN resource.version + 1 ELSE 0

handleOperation(c, k, out) ==
  LET nextVersion == nextVersionOf(c.resource)
      c0 == [c EXCEPT !.invoked = @ + 1]
  IN IF out.how = "throw" \/ (out.how = "return" /\ isPromiseThrows(out.val))
       THEN \* catch (error): the rejected entry is stored, nobody is notified
            LET e == IF out.how = "throw" THEN out.val ELSE TypeErr
            IN [cacheSet(c0, k, Rejected(e, now, nextVersion))
                  EXCEPT !.settled[k] = Append(@, nextVersion)]
     ELSE IF ~isPromise(IF out.how = "promise" THEN PromiseVal(c.nInv + 1) ELSE out.val)
       THEN notifySubscribers(
              [cacheSet(c0, k, Fulfilled(out.val, now, nextVersion))
                 EXCEPT !.settled[k] = Append(@, nextVersion)], k)
     ELSE LET id == c.nInv + 1
              cid == IF c.cid = 0 THEN id ELSE c.cid
              newResource == [c.resource EXCEPT !.suspender = id, !.status = c.status]
              chain == [key |-> k, nextVersion |-> nextVersion,
                        closure |-> cid, stage |-> "outstanding",
                        promise |-> Unsettled]
              c1 == [c0 EXCEPT !.nInv = id, !.cid = cid, !.started = @ \cup {id},
                               !.invs = [j \in DOMAIN @ |->
                                           IF j = id THEN chain ELSE @[j]]]
          IN notifySubscribers(cacheSet(c1, k, newResource), k)

\* the return with a rejected entry's error thrown
resultOfRaises(resource, suspense) ==
  IF resource.status = "pending"
    THEN IF suspense THEN Thrown(PromiseVal(resource.suspender))
                     ELSE Returned(Undefined)
  ELSE IF resource.status = "rejected" THEN Thrown(resource.error)
  ELSE Returned(resource.result)
\* the return with the suspense option ignored
resultOfSilent(resource, suspense) ==
  IF resource.status = "pending" THEN Returned(Undefined)
  ELSE IF resource.status = "rejected" THEN Returned(resource.error)
  ELSE Returned(resource.result)
\* what fetchResource hands back once the producer calls are done
resultOf(resource, suspense) ==
  IF resource.status = "pending"
    THEN IF suspense THEN Thrown(PromiseVal(resource.suspender))
                     ELSE Returned(Undefined)
  ELSE IF resource.status = "rejected" THEN Returned(resource.error)
  ELSE Returned(resource.result)

shouldRevalidateOf(o, resource, t) == isStale(ttlOf(o), resource, t) \/ forceOf(o)

\* the whole call fetchResource(key, fn, options); out1 and out2 are what
\* fn() does the first and the second time the call invokes it
fetchResourceCall(k, o, out1, out2) ==
  LET resource == cache[k]
      shouldRevalidate == shouldRevalidateOf(o, resource, now)
      c == Context(k)
      cA == IF resource = NoEntry
              THEN handleOperation([c EXCEPT !.status = "pending"], k, out1)
              ELSE c
      cB == IF shouldRevalidate
              THEN handleOperation([cA EXCEPT !.status = "revalidating"], k,
                                   IF resource = NoEntry THEN out2 ELSE out1)
              ELSE cA
  IN cB

\* what fn() can do in the calls fetchResource(k, fn, o) makes of it: nothing
\* is drawn for a call that does not happen
Outcomes1(k, o) ==
  IF cache[k] = NoEntry \/ shouldRevalidateOf(o, cache[k], now)
    THEN FnOutcomes ELSE {AsyncOutcome}
Outcomes2(k, o, out1) ==
  IF cache[k] = NoEntry /\ shouldRevalidateOf(o, cache[k], now)
    THEN FnOutcomes ELSE {out1}

\* c is the call, evaluated once
FetchResource(k, o, out1, out2) ==
  LET resource == cache[k]
      twice == resource = NoEntry /\ shouldRevalidateOf(o, resource, now)
  IN /\ ~Draining
     /\ (~twice) => out2 = out1
     /\ \E c \in {fetchResourceCall(k, o, out1, out2)} :
          /\ c.nInv <= Len(invs)
          /\ (c.invoked > 0) => resource.version < MaxVersion
          /\ cache' = c.cache
          /\ invs' = c.invs
          /\ nInv' = c.nInv
          /\ settled' = c.settled
          /\ closure' = IF c.cid = 0 THEN c.closure
                        ELSE [c.closure EXCEPT ![c.cid] =
                                [status |-> c.status, result |-> Undefined,
                                 error |-> Undefined]]
          /\ last' = Last("fetchResource", k, o, resource,
                          resultOf(c.resource, suspenseOf(o)),
                          c.invoked, c.started, c.passes, c.called,
                          c.writes, c.seen)
          /\ UNCHANGED <<subscribers, now>>

(* --------------------------- promise callbacks ------------------------- *)
\* .then(r => { status = 'fulfilled'; result = r })
Then(i, r) ==
  /\ invs[i].stage = "outstanding"
  /\ invs' = [invs EXCEPT ![i].stage = "reacted",
                          ![i].promise = [state |-> "fulfilled", value |-> r]]
  /\ closure' = [closure EXCEPT ![invs[i].closure].status = "fulfilled",
                                ![invs[i].closure].result = r]
  /\ last' = Last("then", invs[i].key, NoOptions, NoEntry, NoRet,
                  0, {}, <<>>, <<>>, <<>>, <<>>)
  /\ UNCHANGED <<cache, subscribers, now, nInv, settled>>

\* .catch(e => { status = 'rejected'; error = ...; return e })
Catch(i, e) ==
  /\ invs[i].stage = "outstanding"
  /\ invs' = [invs EXCEPT ![i].stage = "reacted",
                          ![i].promise = [state |-> "rejected", value |-> e]]
  /\ closure' = [closure EXCEPT ![invs[i].closure].status = "rejected",
                                ![invs[i].closure].error = NormalizeError(e)]
  /\ last' = Last("catch", invs[i].key, NoOptions, NoEntry, NoRet,
                  0, {}, <<>>, <<>>, <<>>, <<>>)
  /\ UNCHANGED <<cache, subscribers, now, nInv, settled>>

\* How the promise a callback is attached to settles the promise the
\* attachment returns; p and the results are [state, value].
\* p.then(r => { ... }): the callback returns nothing; a rejection passes
thenOutcome(p) ==
  IF p.state = "fulfilled" THEN [state |-> "fulfilled", value |-> Undefined] ELSE p
\* a .catch callback that throws e again
catchOutcomeRethrows(p) == p
\* p.catch(e => { ...; return e }): the callback returns e, which fulfils
catchOutcome(p) ==
  IF p.state = "rejected" THEN [state |-> "fulfilled", value |-> p.value] ELSE p
\* p.finally(() => { ... }): the callback returns, p's outcome passes
finallyOutcome(p) == p
\* the suspender: mightBePromise.then(...).catch(...).finally(...)
suspenderOutcome(p) == finallyOutcome(catchOutcome(thenOutcome(p)))
\* what whoever awaits a promise that settled as p gets
Awaited(p) == IF p.state = "fulfilled" THEN Returned(p.value) ELSE Thrown(p.value)

\* a chain whose suspender completes with nothing written to the cache
FinallyUnwritten(i) ==
  /\ invs[i].stage = "reacted"
  /\ invs' = [invs EXCEPT ![i] = [key |-> invs[i].key, nextVersion |-> 0,
                                  closure |-> 0, stage |-> "done",
                                  promise |-> Unsettled]]
  /\ last' = Last("finally", invs[i].key, NoOptions, cache[invs[i].key], NoRet,
                  0, {}, <<>>, <<>>, <<>>, <<>>)
  /\ UNCHANGED <<cache, subscribers, now, closure, nInv, settled>>
\* .finally(() => { resource = {...}; cache.set; notifySubscribers })
\* A finished chain keeps its identity and key only, and the variables of a
\* call whose chains have all finished are unreachable and dropped.  When
\* the callback returns the suspender completes: last.ret is what whoever
\* awaits the suspender gets.
Finally(i) ==
  LET k == invs[i].key
      cid == invs[i].closure
      cl == closure[cid]
      invs1 == [invs EXCEPT ![i] = [key |-> k, nextVersion |-> 0,
                                    closure |-> 0, stage |-> "done",
                                    promise |-> Unsettled]]
      r == [status |-> cl.status, result |-> cl.result, error |-> cl.error,
            suspender |-> i, timestamp |-> now, version |-> invs[i].nextVersion]
  IN /\ invs[i].stage = "reacted"
     /\ \E c \in {notifySubscribers(cacheSet(Context(k), k, r), k)} :
          /\ invs' = invs1
          /\ closure' = IF \E j \in DOMAIN invs : invs1[j].closure = cid
                          THEN closure
                          ELSE [closure EXCEPT ![cid] = NoClosure]
          /\ cache' = c.cache
          /\ settled' = [settled EXCEPT ![k] = Append(@, invs[i].nextVersion)]
          /\ last' = Last("finally", k, NoOptions, cache[k],
                          Awaited(suspenderOutcome(invs[i].promise)),
                          0, {}, c.passes, c.called, c.writes, c.seen)
          /\ UNCHANGED <<subscribers, now, nInv>>

(* ---------------------------- subscriptions ---------------------------- *)
Has(seq, x) == \E j \in 1..Len(seq) : seq[j] = x
\* a delete that empties the Set
WithoutAll(seq, x) == SelectSeq(seq, LAMBDA y : FALSE)
Without(seq, x) == SelectSeq(seq, LAMBDA y : y # x)

\* subscribe(key, listener): Set.add keeps insertion order and no duplicates
Subscribe(k, l) ==
  /\ ~Draining
  /\ subscribers' = [subscribers EXCEPT ![k] =
                       IF Has(@, l) THEN @ ELSE Append(@, l)]
  /\ last' = Last("subscribe", k, NoOptions, NoEntry, NoRet, 0, {}, <<>>, <<>>, <<>>, <<>>)
  /\ UNCHANGED <<cache, now, invs, closure, nInv, settled>>

\* the function subscribe returned: subscribers.get(key)?.delete(listener);
\* it deletes from the Set as any holder of the exported subscribers map can
Unsubscribe(k, l) ==
  /\ ~Draining
  /\ subscribers' = [subscribers EXCEPT ![k] = Without(@, l)]
  /\ last' = Last("unsubscribe", k, NoOptions, NoEntry,
                  Returned(Bool(Has(subscribers[k], l))), 0, {}, <<>>, <<>>, <<>>, <<>>)
  /\ UNCHANGED <<cache, now, invs, closure, nInv, settled>>

(* -------------------- listeners that change the Set -------------------- *)
\* listener invocations after which a pass is taken not to return
MaxCalls == 4
\* What a listener does when it is called: nothing to the Set, the function
\* subscribe returned to it, the one returned to the other listener, or its
\* own and then subscribe again.
Behaviours == {"stay", "unsubscribeSelf", "unsubscribeOther", "resubscribe"}
OtherListener(l) == CHOOSE m \in Listeners : m # l

\* The Set during forEach is its list of entries: delete empties an entry
\* ("") and leaves it in place, add appends a value the Set does not have.
Deleted(entries, l) ==
  [j \in 1..Len(entries) |-> IF entries[j] = l THEN "" ELSE entries[j]]
Added(entries, l) == IF Has(entries, l) THEN entries ELSE Append(entries, l)

\* sub(): the entries after listener l has run
Invoke(entries, l, does) ==
  CASE does = "unsubscribeSelf" -> Deleted(entries, l)
    [] does = "unsubscribeOther" -> Deleted(entries, OtherListener(l))
    [] does = "resubscribe" -> Added(Deleted(entries, l), l)
    [] OTHER -> entries

\* _subscribers.forEach(sub => sub()) from entry pos on: forEach visits the
\* entries in order, skips the emptied ones and goes on to the appended ones
RECURSIVE forEach(_, _, _, _)
forEach(entries, pos, does, called) ==
  IF pos > Len(entries)
    THEN [subs |-> Without(entries, ""), called |-> called, returns |-> TRUE]
  ELSE IF Len(called) = MaxCalls
    THEN [subs |-> Without(entries, ""), called |-> called, returns |-> FALSE]
  ELSE IF entries[pos] = "" THEN forEach(entries, pos + 1, does, called)
  ELSE forEach(Invoke(entries, entries[pos], does[entries[pos]]), pos + 1,
               does, Append(called, entries[pos]))

\* store.notifySubscribers(k), the listeners behaving as does says; last.ret
\* is undefined when the pass returns and none when it does not
NotifySubscribers(k, does) ==
  /\ ~Draining
  /\ \E pass \in {forEach(subscribers[k], 1, does, <<>>)} :
       /\ subscribers' = [subscribers EXCEPT ![k] = pass.subs]
       /\ last' = Last("notifySubscribers", k, NoOptions, NoEntry,
                       IF pass.returns THEN Returned(Undefined) ELSE NoRet,
                       0, {}, <<k>>, pass.called, <<>>, <<>>)
  /\ UNCHANGED <<cache, now, invs, closure, nInv, settled>>

(* --------------------------------- time -------------------------------- *)
Tick ==
  /\ ~Draining
  /\ \E t \in Instants : t > now /\ now' = t
  /\ last' = Last("tick", "", NoOptions, NoEntry, NoRet, 0, {}, <<>>, <<>>, <<>>, <<>>)
  /\ UNCHANGED <<cache, subscribers, invs, closure, nInv, settled>>

\* Spec: every operation, on one key with one listener
Next ==
  \/ \E k \in CoreKeys, o \in Options :
       \E out1 \in Outcomes1(k, o) : \E out2 \in Outcomes2(k, o, out1) :
         FetchResource(k, o, out1, out2)
  \/ \E k \in CoreKeys, v \in Values : Mutate(k, v)
  \/ \E i \in DOMAIN invs, v \in Values : Then(i, Str(v))
  \/ \E i \in DOMAIN invs, e \in Reasons : Catch(i, e)
  \/ \E i \in DOMAIN invs : Finally(i)
  \/ \E k \in CoreKeys, l \in CoreListeners : Subscribe(k, l)
  \/ \E k \in CoreKeys, l \in CoreListeners : Unsubscribe(k, l)
  \/ Tick

Spec == Init /\ [][Next]_vars
\* SpecRace: the same operations, with room for one more promise chain
SpecRace == InitRace /\ [][Next]_vars

\* SpecReasons: fetchResource calls and promise callbacks, the producer's
\* promise failing with any of AllReasons
NextReasons ==
  \/ \E k \in CoreKeys, o \in Options :
       \E out1 \in Outcomes1(k, o) : \E out2 \in Outcomes2(k, o, out1) :
         FetchResource(k, o, out1, out2)
  \/ \E i \in DOMAIN invs, v \in Values : Then(i, Str(v))
  \/ \E i \in DOMAIN invs, e \in AllReasons : Catch(i, e)
  \/ \E i \in DOMAIN invs : Finally(i)

SpecReasons == InitRace /\ [][NextReasons]_vars

\* SpecCalls: fetchResource calls with every option, promise callbacks and
\* the clock, on one key
NextCalls ==
  \/ \E k \in CoreKeys, o \in Options :
       \E out1 \in Outcomes1(k, o) : \E out2 \in Outcomes2(k, o, out1) :
         FetchResource(k, o, out1, out2)
  \/ \E i \in DOMAIN invs, v \in Values : Then(i, Str(v))
  \/ \E i \in DOMAIN invs, e \in Reasons : Catch(i, e)
  \/ \E i \in DOMAIN invs : Finally(i)
  \/ Tick

SpecCalls == Init /\ [][NextCalls]_vars

\* SpecLive: calls, mutate, promise callbacks and the clock on one key, where
\* every promise a producer returned settles (its .then or its .catch
\* callback runs) and every settled chain's .finally callback runs
Settle(i) ==
  \/ \E v \in Values : Then(i, Str(v))
  \/ \E e \in Reasons : Catch(i, e)
NextLive ==
  \/ \E k \in CoreKeys, o \in Options :
       \E out1 \in Outcomes1(k, o) : \E out2 \in Outcomes2(k, o, out1) :
         FetchResource(k, o, out1, out2)
  \/ \E k \in CoreKeys, v \in Values : Mutate(k, v)
  \/ \E i \in DOMAIN invs : Settle(i)
  \/ \E i \in DOMAIN invs : Finally(i)
  \/ Tick
EverySettles ==
  \A i \in 1..MaxInv : WF_vars(Settle(i)) /\ WF_vars(Finally(i))

SpecLive == Init /\ [][NextLive]_vars /\ EverySettles

\* SpecNotify: subscriptions of two listeners to two keys and notification
\* passes whose listeners change the Set of the key
NextNotify ==
  \/ \E k \in Keys, l \in Listeners : Subscribe(k, l)
  \/ \E k \in Keys, l \in Listeners : Unsubscribe(k, l)
  \/ \E k \in Keys, does \in [Listeners -> Behaviours] : NotifySubscribers(k, does)

SpecNotify == Init /\ [][NextNotify]_vars

\* SpecThrows: fetchResource calls whose producer throws any of AllReasons
\* or returns a promise, which fails with any of AllReasons
ThrowOutcomes == {[how |-> "throw", val |-> e] : e \in AllReasons} \cup {AsyncOutcome}
ThrowOutcomes1(k, o) ==
  IF Outcomes1(k, o) = {AsyncOutcome} THEN {AsyncOutcome} ELSE ThrowOutcomes
ThrowOutcomes2(k, o, out1) ==
  IF Outcomes2(k, o, out1) = {out1} THEN {out1} ELSE ThrowOutcomes
NextThrows ==
  \/ \E k \in CoreKeys, o \in Options :
       \E out1 \in ThrowOutcomes1(k, o) : \E out2 \in ThrowOutcomes2(k, o, out1) :
         FetchResource(k, o, out1, out2)
  \/ \E i \in DOMAIN invs, v \in Values : Then(i, Str(v))
  \/ \E i \in DOMAIN invs, e \in AllReasons : Catch(i, e)
  \/ \E i \in DOMAIN invs : Finally(i)

SpecThrows == Init /\ [][NextThrows]_vars

\* SpecSubs: subscriptions of two listeners to two keys, and the operations
\* that notify: calls with the default options, mutate, settlements
SubsOutcomes == {[how |-> "return", val |-> Str("v1")], AsyncOutcome}
NextSubs ==
  \/ \E k \in Keys, l \in Listeners : Subscribe(k, l)
  \/ \E k \in Keys, l \in Listeners : Unsubscribe(k, l)
  \/ \E k \in Keys : \E out \in Outcomes1(k, NoOptions) \cap SubsOutcomes :
       FetchResource(k, NoOptions, out, out)
  \/ \E k \in Keys : Mutate(k, "v2")
  \/ \E i \in DOMAIN invs : Then(i, Str("v1"))
  \/ \E i \in DOMAIN invs : Finally(i)

SpecSubs == Init /\ [][NextSubs]_vars

\* SpecKeys: two keys, each with a listener of its own; the calls take the
\* default options or force, producers and promises one outcome of each kind
KeyOptions == {NoOptions, [NoOptions EXCEPT !.force = "true"]}
KeyOutcomes == {[how |-> "return", val |-> Str("v1")], AsyncOutcome}
ListenerOf(k) == IF k = "k1" THEN "l1" ELSE "l2"
NextKeys ==
  \/ \E k \in Keys, o \in KeyOptions :
       \E out1 \in Outcomes1(k, o) \cap KeyOutcomes :
         \E out2 \in Outcomes2(k, o, out1) \cap KeyOutcomes :
           FetchResource(k, o, out1, out2)
  \/ \E k \in Keys : Mutate(k, "v2")
  \/ \E i \in DOMAIN invs : Then(i, Str("v1"))
  \/ \E i \in DOMAIN invs : Catch(i, Err("wtf"))
  \/ \E i \in DOMAIN invs : Finally(i)
  \/ \E k \in Keys : Subscribe(k, ListenerOf(k))

SpecKeys == InitRace /\ [][NextKeys]_vars

TypeOK ==
  /\ now \in Instants
  /\ nInv \in 0..Len(invs)
  /\ \A k \in Keys : cache[k].status \in
        {"absent", "pending", "fulfilled", "rejected", "revalidating"}


(* ------------------------------ properties ----------------------------- *)
InFlight(resource) == resource.status \in {"pending", "revalidating"}
\* the promise chains started for key k
Chains(k) == {i \in DOMAIN invs : invs[i].key = k}
\* the chains of k whose producer promise has not settled
Outstanding(k) == {i \in Chains(k) : invs[i].stage = "outstanding"}
\* a step that is a call fetchResource(k, fn, o), for some producer fn
FetchStep(k, o) ==
  /\ last'.op = "fetchResource" /\ last'.key = k
  /\ last'.force = forceOf(o) /\ last'.suspense = suspenseOf(o)
  /\ \E out1 \in Outcomes1(k, o) : \E out2 \in Outcomes2(k, o, out1) :
       FetchResource(k, o, out1, out2)
\* a step that is a call mutate(k, v), for some value v
MutateStep(k) ==
  /\ last'.op = "mutate" /\ last'.key = k
  /\ \E v \in Values : Mutate(k, v)

\* C1: after any number of fetchResource calls on a key that had no entry,
\* all made before a producer promise of the key settles, the producer has
\* been invoked once: the key has one promise chain, its entry is Pending
\* with that chain's suspender, and a call in suspense mode threw that
\* suspender.
C1_DedupColdKey ==
  \A k \in Keys :
    (/\ last.op = "fetchResource" /\ last.key = k
     /\ settled[k] = <<>>
     /\ Chains(k) # {} /\ Outstanding(k) = Chains(k))
    => /\ Cardinality(Chains(k)) = 1
       /\ cache[k].status = "pending"
       /\ cache[k].suspender \in Chains(k)
       /\ last.suspense => last.ret = Thrown(PromiseVal(cache[k].suspender))

\* C2: a fetchResource call with force on a key whose entry is Pending or
\* Revalidating invokes no producer, and the entry's suspender is the same
\* after the call as before it.
C2_ForceAttachesToInFlight ==
  [][\A k \in Keys :
       (InFlight(cache[k]) /\ last'.op = "fetchResource" /\ last'.key = k
        /\ last'.force)
       => /\ last'.invoked = 0
          /\ cache'[k].suspender = cache[k].suspender]_vars

\* C3: in every state, every key has at most one producer promise that has
\* not settled.
C3_OneOutstandingPerKey ==
  \A k \in Keys : Cardinality(Outstanding(k)) <= 1

\* C4: for every key, the $version values written by its successive
\* settlements are 0, 1, 2, ...
C4_SettlementVersionsCount ==
  \A k \in Keys : \A j \in 1..Len(settled[k]) : settled[k][j] = j - 1

\* C5: no step replaces an entry that has a $version by an entry with a
\* smaller $version.
C5_NoResurrection ==
  [][\A k \in Keys :
       (cache[k].version # NoVersion /\ cache'[k].version # NoVersion)
       => cache'[k].version >= cache[k].version]_vars

\* C6: a fetchResource call that starts an asynchronous revalidation of an
\* entry Fulfilled with V1, and every fetchResource call made while the
\* entry is Revalidating and carries V1, returns V1, in suspense mode and
\* without it.
CarriesValue(resource) ==
  resource.result # Undefined /\ resource.error = Undefined
C6_StaleWhileRevalidate ==
  [][\A k \in Keys :
       (/\ last'.op = "fetchResource" /\ last'.key = k
        /\ CarriesValue(cache[k])
        /\ \/ cache[k].status = "fulfilled" /\ last'.started # {}
           \/ cache[k].status = "revalidating" /\ Outstanding(k) # {})
       => last'.ret = Returned(cache[k].result)]_vars

\* C7: an entry with status Revalidating always carries a result.
C7_RevalidatingCarriesResult ==
  \A k \in Keys : cache[k].status = "revalidating" => cache[k].result # Undefined

C9_FreshReadChangesNothing ==
  [][\A k \in Keys, o \in Options :
       (/\ cache[k].status = "fulfilled" /\ ~forceOf(o)
        /\ now - cache[k].timestamp < seconds(ttlOf(o))
        /\ FetchStep(k, o))
       => /\ cache' = cache /\ invs' = invs /\ settled' = settled
          /\ last'.invoked = 0
          /\ last'.passes = <<>> /\ last'.called = <<>>
          /\ last'.ret = Returned(cache[k].result)]_vars

\* a call without force returned the value of a Fulfilled entry, with a
\* listener subscribed to the key and not called
C9_Witness ==
  /\ last.op = "fetchResource" /\ ~last.force /\ last.pre = "fulfilled"
  /\ last.invoked = 0 /\ last.called = <<>>
  /\ subscribers[last.key] # <<>>
  /\ cache[last.key].status = "fulfilled"
  /\ cache[last.key].version = 1
  /\ last.ret = Returned(cache[last.key].result)

\* C10: mutate on a key whose entry is Pending or Revalidating returns
\* false, leaves the cache unchanged and calls no listener.
C10_MutateRefusal ==
  [][\A k \in Keys :
       (InFlight(cache[k]) /\ MutateStep(k))
       => /\ last'.ret = Returned(Bool(FALSE))
          /\ cache' = cache /\ settled' = settled
          /\ last'.passes = <<>> /\ last'.called = <<>>]_vars

\* mutate was refused on a Revalidating entry that has a listener
C10_Witness ==
  /\ last.op = "mutate" /\ last.pre = "revalidating"
  /\ last.ret = Returned(Bool(FALSE))
  /\ cache[last.key].status = "revalidating"
  /\ subscribers[last.key] # <<>>

\* C11: mutate(k, v) on a key whose entry is Fulfilled or Rejected returns
\* true, replaces the entry by a Fulfilled entry with result v and the
\* previous $version + 1, and then runs one notification of the key, whose
\* listeners find the new entry.
C11_MutateSettled ==
  [][\A k \in Keys, v \in Values :
       (/\ cache[k].status \in {"fulfilled", "rejected"}
        /\ last'.op = "mutate" /\ last'.key = k
        /\ Mutate(k, v))
       => /\ last'.ret = Returned(Bool(TRUE))
          /\ cache'[k].status = "fulfilled"
          /\ cache'[k].result = Str(v)
          /\ cache'[k].error = Undefined
          /\ cache'[k].version = cache[k].version + 1
          /\ last'.writes = <<cache'[k]>>
          /\ last'.seen = <<cache'[k]>>
          /\ last'.called = subscribers[k]]_vars

\* mutate replaced a Rejected entry and the key's listener was called
C11_Witness ==
  /\ last.op = "mutate" /\ last.pre = "rejected"
  /\ last.ret = Returned(Bool(TRUE))
  /\ cache[last.key].status = "fulfilled"
  /\ cache[last.key].version = 1
  /\ last.called = <<"l1">>

\* C12: mutate(k, v) on a key that has no entry returns true, stores a
\* Fulfilled entry with result v and $version 0, and notifies the key's
\* listeners.
C12_MutateAbsentKey ==
  [][\A k \in Keys, v \in Values :
       (/\ cache[k] = NoEntry
        /\ last'.op = "mutate" /\ last'.key = k
        /\ Mutate(k, v))
       => /\ last'.ret = Returned(Bool(TRUE))
          /\ cache'[k].status = "fulfilled"
          /\ cache'[k].result = Str(v)
          /\ cache'[k].version = 0
          /\ last'.passes = <<k>>
          /\ last'.called = subscribers[k]]_vars

\* C13: whatever the producer did (threw, or returned a promise that failed)
\* and in both suspense modes, a fetchResource call that leaves the entry
\* Rejected returns the entry's error as a value; a call throws only when
\* suspense is on and the entry is Pending, and what it throws is the
\* entry's suspender.
C13_FailureIsAValue ==
  last.op = "fetchResource" =>
    LET resource == cache[last.key]
    IN /\ resource.status = "rejected"
            => /\ resource.error # Undefined
               /\ last.ret = Returned(resource.error)
       /\ last.ret.kind = "throw"
            => /\ last.suspense
               /\ resource.status = "pending"
               /\ resource.suspender # 0
               /\ last.ret.val = PromiseVal(resource.suspender)

\* a call in suspense mode returned the error of a producer promise that
\* had failed with "x"
C13_Witness ==
  /\ last.op = "fetchResource" /\ last.suspense
  /\ cache[last.key].status = "rejected"
  /\ cache[last.key].error = Err("x")
  /\ last.ret = Returned(Err("x"))

\* the error the entry is to hold for a promise that failed with e
ClaimedError(e) ==
  CASE e = Str("x") -> Err("x")
    [] e = Num("404") -> Err("404")
    [] e = Null -> Err("null")
    [] e = Undefined -> Err("undefined")
    [] OTHER -> e

\* C14: when a producer promise has failed with e, the settlement of its
\* chain writes a Rejected entry whose error is e itself if e is an Error,
\* and otherwise an Error whose message is the string form of e.
C14_ErrorNormalization ==
  [][\A i \in DOMAIN invs :
       (/\ last'.op = "finally"
        /\ invs[i].promise.state = "rejected"
        /\ Finally(i))
       => /\ cache'[invs[i].key].status = "rejected"
          /\ cache'[invs[i].key].error = ClaimedError(invs[i].promise.value)]_vars

\* C15: when a fetchResource call leaves the key's entry Pending, the call
\* throws the entry's suspender if suspense is on, and returns undefined
\* and throws nothing if suspense is off.
C15_PendingSignal ==
  (last.op = "fetchResource" /\ cache[last.key].status = "pending")
  => IF last.suspense
       THEN last.ret = Thrown(PromiseVal(cache[last.key].suspender))
       ELSE last.ret = Returned(Undefined)

\* a call with suspense off found the entry Pending and returned undefined
C15_Witness ==
  /\ last.op = "fetchResource" /\ ~last.suspense
  /\ last.pre = "pending" /\ last.invoked = 0
  /\ cache[last.key].status = "pending"
  /\ cache[last.key].suspender = 1
  /\ last.ret = Returned(Undefined)

\* C16, for calls without force: a fetchResource call on a key with no entry
\* whose producer returns a plain value x (null and undefined included)
\* writes a Fulfilled entry with result x and $version 0, writes no Pending
\* entry, throws nothing and returns x.
C16_SyncValueFulfils ==
  [][\A k \in Keys, o \in Options, out \in SyncOutcomes :
       (/\ cache[k] = NoEntry /\ ~forceOf(o) /\ out.how = "return"
        /\ last'.op = "fetchResource" /\ last'.key = k
        /\ FetchResource(k, o, out, out))
       => /\ cache'[k].status = "fulfilled"
          /\ cache'[k].result = out.val
          /\ cache'[k].version = 0
          /\ \A j \in 1..Len(last'.writes) : last'.writes[j].status # "pending"
          /\ last'.ret = Returned(out.val)]_vars

\* C17: a fetchResource call whose producer throws e writes a Rejected entry
\* holding e and the next $version (0 for a key never settled, else the
\* entry's $version + 1), returns e, writes no Pending or Revalidating
\* entry and throws nothing.
C17_SyncThrowRejects ==
  [][\A k \in Keys, o \in Options :
       \A out1 \in Outcomes1(k, o) : \A out2 \in Outcomes2(k, o, out1) :
         (/\ last'.op = "fetchResource" /\ last'.key = k
          /\ out1.how = "throw"
          /\ FetchResource(k, o, out1, out2))
         => /\ cache'[k].status = "rejected"
            /\ cache'[k].error = out1.val
            /\ cache'[k].version = nextVersionOf(cache[k])
            /\ last'.ret = Returned(out1.val)
            /\ \A j \in 1..Len(last'.writes) : ~InFlight(last'.writes[j])]_vars

\* C18: while a key's entry is Rejected, a fetchResource call without force,
\* whatever its ttl and the time, invokes no producer, leaves the cache
\* unchanged and returns the entry's error; and the only steps that change
\* a Rejected entry are a fetchResource call with force and a mutate that
\* returns true.
C18_StickyRejection ==
  [][\A k \in Keys :
       cache[k].status = "rejected"
       => /\ \A o \in Options :
               (~forceOf(o) /\ FetchStep(k, o))
               => /\ last'.invoked = 0
                  /\ cache' = cache
                  /\ last'.ret = Returned(cache[k].error)
          /\ cache'[k] # cache[k]
               => \/ last'.op = "fetchResource" /\ last'.key = k /\ last'.force
                  \/ /\ last'.op = "mutate" /\ last'.key = k
                     /\ last'.ret = Returned(Bool(TRUE))]_vars

\* C19: every write of a key's entry (by fetchResource on a plain value, on
\* a producer that throws, on starting a promise chain; by a settlement; by
\* a mutate that succeeds) is followed, before the next write and before
\* the operation ends, by one notification of the key, whose listeners
\* find the entry just written.
C19_EveryWriteNotifies ==
  last.seen = last.writes

\* the number of times x occurs in seq
Count(seq, x) == Cardinality({j \in 1..Len(seq) : seq[j] = x})

\* C20: a fetchResource call that starts a promise chain runs, for the
\* in-flight entry of that chain, one notification in which every listener
\* subscribed to the key is called once, while the producer's promise is
\* unsettled; the promise's own settling calls no listener; and the
\* settlement of the chain runs one notification, of the settled entry, in
\* which every listener subscribed to the key is called once.
C20_NotifiedAtStartAndSettle ==
  [][\A k \in Keys :
       /\ (last'.op = "fetchResource" /\ last'.key = k /\ last'.started # {})
            => /\ \A i \in last'.started :
                    /\ invs'[i].stage = "outstanding"
                    /\ Cardinality({j \in 1..Len(last'.seen) :
                                      /\ InFlight(last'.seen[j])
                                      /\ last'.seen[j].suspender = i}) = 1
               /\ \A l \in Listeners :
                    Count(last'.called, l) =
                      IF Has(subscribers[k], l) THEN Len(last'.passes) ELSE 0
       /\ (last'.op \in {"then", "catch"}) => last'.called = <<>>
       /\ \A i \in DOMAIN invs :
            (last'.op = "finally" /\ invs[i].key = k /\ Finally(i))
            => /\ last'.seen = <<cache'[k]>>
               /\ cache'[k].status \in {"fulfilled", "rejected"}
               /\ cache'[k].suspender = i
               /\ \A l \in Listeners :
                    Count(last'.called, l) =
                      IF Has(subscribers[k], l) THEN 1 ELSE 0]_vars

\* the settlement of a promise chain called the key's listener, which the
\* start of the chain had called too
C20_Witness ==
  /\ last.op = "finally" /\ last.pre = "pending"
  /\ last.called = <<"l1">>
  /\ subscribers[last.key] = <<"l1">>
  /\ cache[last.key].status = "fulfilled"
  /\ cache[last.key].suspender = 1

\* C21: the function subscribe(k, l) returned removes l from the listeners
\* of k and nothing else: every other listener of k, and every listener of
\* every other key, stays registered in the same order; calling it when l is
\* not registered changes nothing; and every notification of a key calls the
\* listeners registered for it at that moment, once each, so a listener that
\* was removed is not called.
C21_UnsubscribeExact ==
  [][/\ \A k \in Keys, l \in Listeners :
          (last'.op = "unsubscribe" /\ last'.key = k /\ Unsubscribe(k, l))
          => /\ ~Has(subscribers'[k], l)
             /\ \A m \in Listeners \ {l} :
                  Has(subscribers'[k], m) = Has(subscribers[k], m)
             /\ \A k2 \in Keys \ {k} : subscribers'[k2] = subscribers[k2]
             /\ ~Has(subscribers[k], l) => subscribers' = subscribers
             /\ cache' = cache
     /\ \A k \in Keys :
          (last'.key = k /\ last'.passes # <<>>)
          => \A l \in Listeners :
               Count(last'.called, l) =
                 IF Has(subscribers[k], l) THEN Len(last'.passes) ELSE 0]_vars

\* l1 was removed from k1, which keeps l2, while l1 stays registered for k2
C21_Witness ==
  /\ last.op = "unsubscribe" /\ last.key = "k1"
  /\ last.ret = Returned(Bool(TRUE))
  /\ subscribers["k1"] = <<"l2">>
  /\ Has(subscribers["k2"], "l1")
  /\ cache["k1"].status = "fulfilled"

\* C22: a fetchResource call, a promise callback or a mutate on key k leaves
\* the entry of every other key as it was, notifies k only and calls only
\* listeners registered for k; and a fetchResource call that puts k in
\* flight invokes k's producer once and gives the entry a suspender that no
\* other key's entry has.
C22_KeysIndependent ==
  [][\A k \in Keys :
       (/\ last'.op \in {"fetchResource", "then", "catch", "finally", "mutate"}
        /\ last'.key = k)
       => /\ \A k2 \in Keys \ {k} : cache'[k2] = cache[k2]
          /\ \A j \in 1..Len(last'.passes) : last'.passes[j] = k
          /\ \A j \in 1..Len(last'.called) : Has(subscribers[k], last'.called[j])
          /\ (last'.op = "fetchResource" /\ ~InFlight(cache[k]) /\ InFlight(cache'[k]))
               => /\ last'.invoked = 1
                  /\ \A k2 \in Keys \ {k} :
                       cache'[k2].suspender # cache'[k].suspender]_vars

\* what useResource returns for the snapshot resource of its key
useResource(resource) ==
  LET status == resource.status
      isValidating == status = "pending" \/ status = "revalidating"
      isLoading == status = "pending"
      hasData == status = "fulfilled" \/ status = "revalidating"
      hasError == status = "rejected"
  IN [data |-> IF hasData /\ resource # NoEntry THEN resource.result ELSE Undefined,
      error |-> IF hasError /\ resource # NoEntry THEN resource.error ELSE Undefined,
      isLoading |-> isLoading, isValidating |-> isValidating]

\* C23: for every entry the cache holds, what the hook returns is given by
\* the entry's status: pending: isLoading, isValidating, no data; fulfilled:
\* neither flag, data; revalidating: isValidating only, data; rejected:
\* neither flag, no data, an error.
C23_HookView ==
  \A k \in Keys :
    LET view == useResource(cache[k])
        flags == <<view.isLoading, view.isValidating>>
    IN CASE cache[k].status = "pending" ->
              flags = <<TRUE, TRUE>> /\ view.data = Undefined
         [] cache[k].status = "fulfilled" ->
              flags = <<FALSE, FALSE>> /\ view.data # Undefined
         [] cache[k].status = "revalidating" ->
              flags = <<FALSE, TRUE>> /\ view.data # Undefined
         [] cache[k].status = "rejected" ->
              /\ flags = <<FALSE, FALSE>> /\ view.data = Undefined
              /\ view.error # Undefined
         [] OTHER -> TRUE

\* C24: a fetchResource call given no options does what the same call given
\* { ttl: 60, suspense: true, force: false } does (same writes, same
\* notifications, same return); on a Fulfilled entry younger than 60 seconds
\* it invokes no producer and returns the entry's result, and on a Pending
\* entry it invokes no producer and throws the entry's suspender.
C24_DefaultOptions ==
  [][\A k \in Keys : \A out \in Outcomes1(k, NoOptions) :
       (/\ last'.op = "fetchResource" /\ last'.key = k
        /\ ~last'.force /\ last'.suspense
        /\ FetchResource(k, NoOptions, out, out))
       => /\ out \in Outcomes1(k, ExplicitDefaults)
          /\ FetchResource(k, ExplicitDefaults, out, out)
          /\ (cache[k].status = "fulfilled"
              /\ now - cache[k].timestamp < seconds(60))
               => /\ last'.invoked = 0 /\ cache' = cache
                  /\ last'.ret = Returned(cache[k].result)
          /\ cache[k].status = "pending"
               => /\ last'.invoked = 0 /\ cache' = cache
                  /\ last'.ret = Thrown(PromiseVal(cache[k].suspender))]_vars

\* a call in suspense mode, without force, found a Pending entry and threw
\* its suspender
C24_Witness ==
  /\ last.op = "fetchResource" /\ ~last.force /\ last.suspense
  /\ last.pre = "pending" /\ last.invoked = 0
  /\ cache[last.key].status = "pending"
  /\ last.ret = Thrown(PromiseVal(1))

\* C25: a fetchResource call on a key with no entry invokes the producer
\* once, with force or without it, writes at most one in-flight entry, and
\* when the producer is synchronous leaves the key settled at
\* $version 0.
C25_ColdKeyInvokesOnce ==
  [][\A k \in Keys, o \in Options :
       \A out1 \in Outcomes1(k, o) : \A out2 \in Outcomes2(k, o, out1) :
         (/\ cache[k] = NoEntry
          /\ last'.op = "fetchResource" /\ last'.key = k
          /\ FetchResource(k, o, out1, out2))
         => /\ last'.invoked = 1
            /\ Cardinality({j \in 1..Len(last'.writes) :
                              InFlight(last'.writes[j])}) <= 1
            /\ (out1.how # "promise" /\ out2.how # "promise")
                 => /\ cache'[k].status \in {"fulfilled", "rejected"}
                    /\ cache'[k].version = 0]_vars

\* C26: a fetchResource call without force on a Fulfilled entry whose ttl
\* has expired invokes the producer once and, when the producer returns a
\* promise, writes a Revalidating entry carrying that promise; every
\* fetchResource call without force made while the entry is Revalidating
\* and that promise unsettled, whatever its ttl and the time, invokes no
\* producer, starts no promise chain and leaves the cache unchanged.
C26_DedupStaleKey ==
  [][\A k \in Keys, o \in Options :
       (/\ ~forceOf(o) /\ cache[k].status \in {"fulfilled", "revalidating"}
        /\ FetchStep(k, o))
       => /\ (cache[k].status = "fulfilled"
              /\ now - cache[k].timestamp > seconds(ttlOf(o)))
               => /\ last'.invoked = 1
                  /\ Cardinality(last'.started) <= 1
                  /\ \A i \in last'.started :
                       /\ cache'[k].status = "revalidating"
                       /\ cache'[k].suspender = i
                       /\ invs'[i].stage = "outstanding"
          /\ (cache[k].status = "revalidating"
              /\ cache[k].suspender \in Outstanding(k))
               => /\ last'.invoked = 0 /\ last'.started = {}
                  /\ cache' = cache /\ invs' = invs]_vars

\* a call without force, made after the instant the entry was written at,
\* found it Revalidating with its promise unsettled and started nothing
C26_Witness ==
  /\ last.op = "fetchResource" /\ ~last.force
  /\ last.pre = "revalidating" /\ last.invoked = 0
  /\ cache[last.key].status = "revalidating"
  /\ cache[last.key].result \in {Str(v) : v \in Values}
  /\ cache[last.key].timestamp < now
  /\ Outstanding(last.key) = {cache[last.key].suspender}

\* C27: a mutate of a key returns true only when no producer promise of the
\* key is unsettled; every unsettled promise settles by writing its outcome
\* to the entry (Finally), so this is what keeps the outcome of a producer
\* call older than the mutate from replacing the value the mutate stored.
C27_MutateNotOverwritten ==
  [][\A k \in Keys :
       (MutateStep(k) /\ last'.ret = Returned(Bool(TRUE)))
       => Outstanding(k) = {}]_vars

\* C28: a fetchResource call with force on a Rejected entry whose producer
\* returns a promise invokes the producer once and starts one promise chain,
\* whose settlement writes a Fulfilled or Rejected entry with the Rejected
\* entry's $version + 1; the call itself throws the chain's suspender if
\* suspense is on and returns undefined if it is off.
C28_ForcedRetryOfRejected ==
  [][/\ \A k \in Keys, o \in Options :
          (/\ cache[k].status = "rejected" /\ forceOf(o)
           /\ FetchStep(k, o) /\ last'.started # {})
          => /\ last'.invoked = 1
             /\ \E i \in DOMAIN invs :
                  /\ last'.started = {i}
                  /\ invs'[i].nextVersion = cache[k].version + 1
                  /\ last'.ret = IF suspenseOf(o) THEN Thrown(PromiseVal(i))
                                                  ELSE Returned(Undefined)
     /\ \A i \in DOMAIN invs :
          (last'.op = "finally" /\ Finally(i))
          => /\ cache'[invs[i].key].status \in {"fulfilled", "rejected"}
             /\ cache'[invs[i].key].version = invs[i].nextVersion]_vars

\* C29: when the promise of a revalidation of an entry Fulfilled with V has
\* failed, the settlement of its chain writes an entry that holds the error
\* and still holds V, and the hook's data for the key is still V.
C29_FailedRevalidationKeepsData ==
  [][\A i \in DOMAIN invs :
       LET k == invs[i].key
       IN (/\ last'.op = "finally"
           /\ cache[k].status = "revalidating" /\ cache[k].suspender = i
           /\ CarriesValue(cache[k])
           /\ invs[i].promise.state = "rejected"
           /\ Finally(i))
          => /\ cache'[k].error # Undefined
             /\ cache'[k].result = cache[k].result
             /\ useResource(cache'[k]).data = cache[k].result]_vars

\* the suspender i has completed: the .finally callback of chain i has run
Completed(i) == invs[i].stage = "done"

\* C30: when the suspender of a promise chain completes, the key's entry is
\* already the settled entry of that chain (status fulfilled or rejected,
\* holding that suspender); and an entry that is Pending or Revalidating
\* holds a suspender that has not completed, so whoever waited for the
\* suspender a call threw finds the outcome in the cache.
C30_SettledBeforeResume ==
  /\ last.op = "finally"
       => /\ cache[last.key].status \in {"fulfilled", "rejected"}
          /\ cache[last.key].suspender \in DOMAIN invs
          /\ Completed(cache[last.key].suspender)
          /\ last.writes = <<cache[last.key]>>
  /\ \A k \in Keys :
       (InFlight(cache[k]) /\ cache[k].suspender \in DOMAIN invs)
       => ~Completed(cache[k].suspender)

\* the suspender of a Pending entry has completed and the entry is the
\* Rejected entry of its chain
C30_Witness ==
  /\ last.op = "finally" /\ last.pre = "pending"
  /\ cache[last.key].status = "rejected"
  /\ cache[last.key].error = Err("wtf")
  /\ cache[last.key].suspender = 1
  /\ Completed(1)

\* C31: when every promise a producer returned settles, a key whose entry is
\* Pending or Revalidating later has a Fulfilled or Rejected entry, whatever
\* fetchResource and mutate calls are made meanwhile.
C31_InFlightSettles ==
  \A k \in CoreKeys :
    InFlight(cache[k]) ~> (cache[k].status \in {"fulfilled", "rejected"})

\* the settlement of a revalidation replaced the Revalidating entry by a
\* Fulfilled one, with no promise of the key left unsettled
C31_Witness ==
  /\ last.op = "finally" /\ last.pre = "revalidating"
  /\ cache[last.key].status = "fulfilled"
  /\ cache[last.key].version = 1
  /\ Outstanding(last.key) = {}

\* C32: the suspender of a promise chain completes fulfilled, never
\* rejected, whether the producer's promise was fulfilled or failed: whoever
\* awaits it is given a value and no exception, and at that moment the
\* chain's settled entry (Rejected, when the promise failed and no other
\* producer call shares the call's variables) has been written.
C32_SuspenderNeverFails ==
  last.op = "finally"
  => /\ last.ret.kind = "return"
     /\ Len(last.writes) = 1
     /\ last.writes[1].status \in {"fulfilled", "rejected"}
     /\ last.writes[1] = cache[last.key]

\* the suspender of a chain whose promise failed with "x" completed
\* fulfilled, after the Rejected entry was written
C32_Witness ==
  /\ last.op = "finally"
  /\ last.ret = Returned(Str("x"))
  /\ last.writes = <<cache[last.key]>>
  /\ cache[last.key].status = "rejected"
  /\ cache[last.key].error = Err("x")

\* C33: for every entry in the cache, isSettled is true when the status is
\* fulfilled, rejected or revalidating, and the entry then has a $version
\* and a timestamp; it is false when the status is pending, and false for a
\* key without an entry.
C33_IsSettledByStatus ==
  \A k \in Keys :
    CASE cache[k] = NoEntry -> ~isSettled(cache[k])
      [] cache[k].status = "pending" -> ~isSettled(cache[k])
      [] OTHER -> /\ isSettled(cache[k])
                  /\ cache[k].version # NoVersion
                  /\ cache[k].timestamp # NoTime

\* C34: a notification pass of a key returns, calls no listener more than
\* once, and calls every listener that was registered when it started and
\* is still registered when it ends, whatever the listeners do to the Set
\* when called: nothing, unsubscribe themselves, unsubscribe the other
\* listener, or unsubscribe and subscribe themselves again.
C34_NotifyPass ==
  [][\A k \in Keys :
       (last'.op = "notifySubscribers" /\ last'.key = k)
       => /\ last'.ret = Returned(Undefined)
          /\ \A l \in Listeners : Count(last'.called, l) <= 1
          /\ \A l \in Listeners :
               (Has(subscribers[k], l) /\ Has(subscribers'[k], l))
               => Count(last'.called, l) = 1]_vars

\* C35: a fetchResource call that starts a promise chain on a Fulfilled
\* entry replaces it by an entry that differs in status (revalidating) and
\* suspender only: $version, timestamp and result are those of the
\* Fulfilled entry; the chain is to write $version + 1, and its settlement
\* writes that $version.
C35_RevalidationKeepsVersion ==
  [][/\ \A k \in Keys :
          (/\ last'.op = "fetchResource" /\ last'.key = k
           /\ cache[k].status = "fulfilled" /\ last'.started # {})
          => \E i \in last'.started :
               /\ last'.started = {i}
               /\ cache'[k] = [cache[k] EXCEPT !.status = "revalidating",
                                               !.suspender = i]
               /\ invs'[i].nextVersion = cache[k].version + 1
     /\ \A i \in DOMAIN invs :
          (last'.op = "finally" /\ Finally(i))
          => cache'[invs[i].key].version = invs[i].nextVersion]_vars

\* a revalidation was started on an entry Fulfilled at $version 0 at an
\* earlier instant, and the Revalidating entry has that $version and
\* timestamp
C35_Witness ==
  /\ last.op = "fetchResource" /\ last.pre = "fulfilled"
  /\ last.started = {1}
  /\ cache[last.key].status = "revalidating"
  /\ cache[last.key].version = 0
  /\ cache[last.key].timestamp = 0 /\ now > 0
  /\ cache[last.key].result = Str("v1")

\* C36: the error of every Rejected entry is an Error object, and so is what
\* a fetchResource call returns for a Rejected entry, whether the producer
\* threw or its promise failed, and whatever it threw or failed with (an
\* Error, a string, a number, null, undefined).
C36_ErrorsAreErrors ==
  \A k \in Keys :
    cache[k].status = "rejected"
    => /\ InstanceOfError(cache[k].error)
       /\ (last.op = "fetchResource" /\ last.key = k)
            => /\ last.ret.kind = "return"
               /\ InstanceOfError(last.ret.val)

====
